---- MODULE Spec2Model ----
(***************************************************************************)
(* Model of libavformat/cached_file.c: the "cf:" URL protocol, a file      *)
(* opened through a stdio stream (fopen / setvbuf / fread / fwrite /       *)
(* fseeko / fflush / fsync / fclose) with a caller-sized stream buffer.    *)
(*                                                                         *)
(* A "world" is one protocol context (CachedFileContext) together with     *)
(* everything its calls touch: the heap blocks obtained from av_malloc,    *)
(* the stdio stream (its buffer), the OS file (the page-cache content and *)
(* the descriptor offset) and whether stable storage holds that content.   *)
(* Every handler of the protocol table is an operator from a world (and    *)
(* its arguments, and the outcome of each system call it makes) to the     *)
(* world after the call.  Data bytes are only carried, never inspected, by *)
(* the handlers, so Write is driven with a pattern in which each byte      *)
(* names its offset.  Reading right after writing (and the reverse) on a   *)
(* "w+b" stream is modelled as glibc and musl do it: pending output is     *)
(* written first, read-ahead is dropped.                                   *)
(***************************************************************************)
EXTENDS Integers, Sequences, FiniteSets, TLC

VARIABLES w, g, a, b

vars == <<w, g, a, b>>

-----------------------------------------------------------------------------
(* Bounds of the model *)

\* longest file / largest stream position explored
MaxPos == 3
\* longest argument of one Write
MaxWriteLen == 2
\* contexts created one after the other on the same path
MaxHandles == 2
\* size of the buffer stdio gives a stream that setvbuf was not called on
\* (BUFSIZ, scaled down so that the buffer fills)
StdioBufSiz == 2

-----------------------------------------------------------------------------
(* Program constants *)

\* default of the buf_size option
DefaultBufSize == 1048576

AVIO_FLAG_READ == 1
AVIO_FLAG_WRITE == 2
AVSEEK_SIZE == 65536
SEEK_SET == 0
SEEK_CUR == 1
SEEK_END == 2

ENOENT == 2
EIO == 5
EACCES == 13
EINVAL == 22
ENOSYS == 38

\* owner permission bits of st_mode
S_IRUSR == 256
S_IWUSR == 128

AVERROR(e) == 0 - e

BufSizes == {0, DefaultBufSize}
Bytes == {1, 2}
Datas == UNION {[1..n -> Bytes] : n \in 0..MaxWriteLen}
\* the test pattern: n bytes for offset k onwards, each byte naming its offset
Pattern(k, n) == [i \in 1..n |-> k + i]
\* what the path holds before the first Open, when it exists
OldContent == <<8, 9>>
OpenFlags == {AVIO_FLAG_READ, AVIO_FLAG_WRITE, AVIO_FLAG_READ + AVIO_FLAG_WRITE}
Whences == {SEEK_SET, SEEK_CUR, SEEK_END, AVSEEK_SIZE}

HasWrite(flags) == (flags \div AVIO_FLAG_WRITE) % 2 = 1
HasRead(flags) == (flags \div AVIO_FLAG_READ) % 2 = 1

\* masks of CheckAccess and owner permissions of a file
Masks == {0, AVIO_FLAG_READ, AVIO_FLAG_WRITE, AVIO_FLAG_READ + AVIO_FLAG_WRITE}
Modes == {0, S_IRUSR, S_IWUSR, S_IRUSR + S_IWUSR}

-----------------------------------------------------------------------------
(* Names.  A string is the sequence of its characters. *)

\* the URL of the handle, "cf:t", and the file it names, "t"
CfUrl == <<"c", "f", ":", "t">>
NativePath == <<"t">>
CfPrefix == <<"c", "f", ":">>
FilePrefix == <<"f", "i", "l", "e", ":">>

\* av_strstart(str, pfx, &ptr): what ptr points to afterwards, the rest of str
\* when str starts with pfx and str itself (ptr untouched) when it does not
av_strstart(str, pfx) ==
    IF Len(str) >= Len(pfx) /\ SubSeq(str, 1, Len(pfx)) = pfx
    THEN SubSeq(str, Len(pfx) + 1, Len(str))
    ELSE str

\* the file system holds the file of the handle under NativePath and may hold
\* a second file whose name is, character by character, the URL
Stat(W, name) ==
    IF name = NativePath THEN [ok |-> W.exists, mode |-> W.mode]
    ELSE IF name = CfUrl THEN [ok |-> W.lit.exists, mode |-> W.lit.mode]
    ELSE [ok |-> FALSE, mode |-> 0]

-----------------------------------------------------------------------------
(* The stdio stream and the OS file under it *)

\* write(2) of data at offset off: bytes replace or extend the file, a gap
\* between the old end and off reads as zeros
Overlay(file, off, data) ==
    IF data = <<>> THEN file
    ELSE LET n == IF off + Len(data) > Len(file) THEN off + Len(data) ELSE Len(file)
         IN [i \in 1..n |-> IF i > off /\ i <= off + Len(data) THEN data[i - off]
                             ELSE IF i <= Len(file) THEN file[i] ELSE 0]

\* the stream's logical position (what ftello reports)
Pos(W) == W.off + Len(W.wbuf) - Len(W.rbuf)

\* fflush: pending output goes to the OS file with one write; when that write
\* fails the pending bytes are either kept or dropped (both occur among C
\* libraries).  On a stream that was read, the read-ahead is dropped and the
\* descriptor is put back at the logical position.  (The stream's error
\* indicator is not modelled: no handler calls ferror.)
fflush(W, wfail, keep) ==
    IF W.wbuf # <<>>
    THEN IF wfail
         THEN [W EXCEPT !.wbuf = IF keep THEN @ ELSE <<>>, !.dropped = @ \/ ~keep]
         ELSE [W EXCEPT !.file = Overlay(@, W.off, W.wbuf), !.durable = FALSE,
                        !.off = @ + Len(W.wbuf), !.wbuf = <<>>]
    ELSE [W EXCEPT !.off = @ - Len(W.rbuf), !.rbuf = <<>>]

\* whether that fflush reports EOF
FlushFails(W, wfail) == W.wbuf # <<>> /\ wfail

\* fwrite, byte by byte: a byte goes into the buffer; a full buffer is
\* flushed first, and a flush that fails ends the call with the count so far
RECURSIVE PutBytes(_, _, _, _, _)
PutBytes(W, data, n, wfail, keep) ==
    IF data = <<>> THEN [w |-> W, n |-> n, failed |-> FALSE]
    ELSE IF Len(W.wbuf) >= W.cap
    THEN IF wfail
         THEN [w |-> fflush(W, TRUE, keep), n |-> n, failed |-> TRUE]
         ELSE PutBytes(fflush(W, FALSE, keep), data, n, wfail, keep)
    ELSE PutBytes([W EXCEPT !.wbuf = Append(@, Head(data))], Tail(data), n + 1,
                  wfail, keep)

\* fread, byte by byte: bytes come from the read-ahead; an empty read-ahead is
\* refilled with one read(2) of up to cap bytes; a failed read and end of
\* file both end the call with the count so far
RECURSIVE GetBytes(_, _, _, _)
GetBytes(W, size, out, rfail) ==
    IF Len(out) >= size THEN [w |-> W, out |-> out, failed |-> FALSE]
    ELSE IF W.rbuf # <<>>
    THEN GetBytes([W EXCEPT !.rbuf = Tail(@)], size, Append(out, Head(W.rbuf)), rfail)
    ELSE IF rfail THEN [w |-> W, out |-> out, failed |-> TRUE]
    ELSE IF W.off >= Len(W.file) THEN [w |-> W, out |-> out, failed |-> FALSE]
    ELSE LET k == IF W.cap < Len(W.file) - W.off THEN W.cap ELSE Len(W.file) - W.off
         IN GetBytes([W EXCEPT !.rbuf = SubSeq(W.file, W.off + 1, W.off + k),
                               !.off = @ + k], size, out, rfail)

\* av_free: NULL is ignored; a live block is released; anything else is a
\* double free
av_free(W, p) ==
    IF p = 0 THEN W
    ELSE IF p \in W.live THEN [W EXCEPT !.live = @ \ {p}]
    ELSE [W EXCEPT !.dfree = TRUE]

-----------------------------------------------------------------------------
(* The protocol handlers *)

\* an open whose write modes are "ab" and "a+b", which keep the content
cached_file_open_append(W, flags, ofail, mfail) ==
    LET wr == HasWrite(flags)
        rd == HasRead(flags)
        mode == IF wr /\ rd THEN "a+b" ELSE IF wr THEN "ab" ELSE "rb"
        name == av_strstart(W.url, CfPrefix)
        W1 == [W EXCEPT !.write_flags = IF wr THEN 1 ELSE 0, !.op = "open",
                        !.arg = flags, !.out = <<>>, !.oscall = FALSE]
        noent == mode = "rb" /\ ~Stat(W, name).ok
    IN IF ofail \/ noent \/ name # NativePath
       THEN [W1 EXCEPT !.ret = AVERROR(IF noent THEN ENOENT ELSE EACCES),
                       !.oscall = TRUE]
       ELSE LET blk == IF W.buf_size # 0 /\ ~mfail THEN W.nalloc + 1 ELSE 0
            IN [W1 EXCEPT !.exists = TRUE,
                          !.mode = IF W.exists THEN @ ELSE S_IRUSR + S_IWUSR,
                          !.durable = IF wr THEN FALSE ELSE @,
                          !.off = 0, !.fdopen = TRUE,
                          !.wbuf = <<>>, !.rbuf = <<>>, !.dropped = FALSE,
                          !.cap = IF blk # 0 THEN W.buf_size ELSE StdioBufSiz,
                          !.buf = blk,
                          !.live = IF blk # 0 THEN @ \cup {blk} ELSE @,
                          !.nalloc = IF blk # 0 THEN blk ELSE @,
                          !.fno = 3, !.f = "open", !.fd = 3,
                          !.st = "open", !.flags = flags, !.ret = 0]

\* an open that allocates the buffer before it calls fopen
cached_file_open_earlyalloc(W, flags, ofail, mfail) ==
    LET wr == HasWrite(flags)
        rd == HasRead(flags)
        mode == IF wr /\ rd THEN "w+b" ELSE IF wr THEN "wb" ELSE "rb"
        name == av_strstart(W.url, CfPrefix)
        blk == IF W.buf_size # 0 /\ ~mfail THEN W.nalloc + 1 ELSE 0
        W1 == [W EXCEPT !.write_flags = IF wr THEN 1 ELSE 0, !.op = "open",
                        !.arg = flags, !.out = <<>>, !.oscall = FALSE,
                        !.buf = blk,
                        !.live = IF blk # 0 THEN @ \cup {blk} ELSE @,
                        !.nalloc = IF blk # 0 THEN blk ELSE @]
        noent == mode = "rb" /\ ~Stat(W, name).ok
    IN IF ofail \/ noent \/ name # NativePath
       THEN [W1 EXCEPT !.ret = AVERROR(IF noent THEN ENOENT ELSE EACCES),
                       !.oscall = TRUE]
       ELSE [W1 EXCEPT !.exists = TRUE,
                       !.mode = IF W.exists THEN @ ELSE S_IRUSR + S_IWUSR,
                       !.file = IF wr THEN <<>> ELSE @,
                       !.durable = IF wr THEN FALSE ELSE @,
                       !.off = 0, !.fdopen = TRUE,
                       !.wbuf = <<>>, !.rbuf = <<>>, !.dropped = FALSE,
                       !.cap = IF blk # 0 THEN W.buf_size ELSE StdioBufSiz,
                       !.fno = 3, !.f = "open", !.fd = 3,
                       !.st = "open", !.flags = flags, !.ret = 0]

\* cached_file_open
cached_file_open(W, flags, ofail, mfail) ==
    LET wr == HasWrite(flags)
        rd == HasRead(flags)
        mode == IF wr /\ rd THEN "w+b" ELSE IF wr THEN "wb" ELSE "rb"
        name == av_strstart(W.url, CfPrefix)
        W1 == [W EXCEPT !.write_flags = IF wr THEN 1 ELSE 0, !.op = "open",
                        !.arg = flags, !.out = <<>>, !.oscall = FALSE]
        noent == mode = "rb" /\ ~Stat(W, name).ok
    IN IF ofail \/ noent \/ name # NativePath
       THEN [W1 EXCEPT !.ret = AVERROR(IF noent THEN ENOENT ELSE EACCES),
                       !.oscall = TRUE]
       ELSE LET blk == IF W.buf_size # 0 /\ ~mfail THEN W.nalloc + 1 ELSE 0
            IN [W1 EXCEPT !.exists = TRUE,
                          !.mode = IF W.exists THEN @ ELSE S_IRUSR + S_IWUSR,
                          !.file = IF wr THEN <<>> ELSE @,
                          !.durable = IF wr THEN FALSE ELSE @,
                          !.off = 0, !.fdopen = TRUE,
                          !.wbuf = <<>>, !.rbuf = <<>>, !.dropped = FALSE,
                          !.cap = IF blk # 0 THEN W.buf_size ELSE StdioBufSiz,
                          !.buf = blk,
                          !.live = IF blk # 0 THEN @ \cup {blk} ELSE @,
                          !.nalloc = IF blk # 0 THEN blk ELSE @,
                          !.fno = 3, !.f = "open", !.fd = 3,
                          !.st = "open", !.flags = flags, !.ret = 0]

\* cached_file_write
cached_file_write(W, data, wfail, keep) ==
    LET W0 == IF W.rbuf # <<>> THEN fflush(W, FALSE, keep) ELSE W
        r == PutBytes(W0, data, 0, wfail, keep)
    IN [r.w EXCEPT !.op = "write", !.arg = Len(data), !.ret = r.n, !.out = <<>>,
                   !.oscall = r.failed]

\* cached_file_read with a zero count turned into an error code
cached_file_read_eoferr(W, size, rfail, wfail, keep) ==
    LET W0 == IF W.wbuf # <<>> THEN fflush(W, wfail, keep) ELSE W
        r == IF FlushFails(W, wfail)
             THEN [w |-> W0, out |-> <<>>, failed |-> TRUE]
             ELSE GetBytes(W0, size, <<>>, rfail)
    IN [r.w EXCEPT !.op = "read", !.arg = size, !.out = r.out,
                   !.ret = IF r.out = <<>> THEN AVERROR(EIO) ELSE Len(r.out),
                   !.oscall = r.failed]

\* cached_file_read
cached_file_read(W, size, rfail, wfail, keep) ==
    LET W0 == IF W.wbuf # <<>> THEN fflush(W, wfail, keep) ELSE W
        r == IF FlushFails(W, wfail)
             THEN [w |-> W0, out |-> <<>>, failed |-> TRUE]
             ELSE GetBytes(W0, size, <<>>, rfail)
    IN [r.w EXCEPT !.op = "read", !.arg = size, !.ret = Len(r.out), !.out = r.out,
                   !.oscall = r.failed]

\* cached_file_seek whose size query does not flush before fstat
cached_file_seek_noflush(W, pos, whence, wfail, keep, stfail) ==
    IF whence = AVSEEK_SIZE
    THEN [W EXCEPT !.op = "size", !.arg = 0, !.out = <<>>,
                   !.ret = IF stfail THEN AVERROR(EIO) ELSE Len(W.file),
                   !.oscall = stfail]
    ELSE LET W1 == IF W.wbuf # <<>> THEN fflush(W, wfail, keep) ELSE W
             base == IF whence = SEEK_SET THEN 0
                     ELSE IF whence = SEEK_CUR THEN Pos(W1) ELSE Len(W1.file)
             target == base + pos
             W2 == [W1 EXCEPT !.op = "seek", !.arg = 0, !.out = <<>>]
         IN IF FlushFails(W, wfail)
            THEN [W2 EXCEPT !.ret = AVERROR(EIO), !.oscall = TRUE]
            ELSE IF target < 0
            THEN [W2 EXCEPT !.ret = AVERROR(EINVAL), !.oscall = TRUE]
            ELSE [W2 EXCEPT !.off = target, !.rbuf = <<>>, !.ret = target,
                            !.oscall = FALSE]

\* cached_file_seek whose size query takes write_flags for a dirty mark and
\* clears it after the flush
cached_file_seek_clean(W, pos, whence, wfail, keep, stfail) ==
    IF whence = AVSEEK_SIZE
    THEN LET W1 == fflush(W, wfail, keep)
         IN [W1 EXCEPT !.op = "size", !.arg = 0, !.out = <<>>,
                       !.write_flags = 0,
                       !.ret = IF stfail THEN AVERROR(EIO) ELSE Len(W1.file),
                       !.oscall = FlushFails(W, wfail) \/ stfail]
    ELSE LET W1 == IF W.wbuf # <<>> THEN fflush(W, wfail, keep) ELSE W
             base == IF whence = SEEK_SET THEN 0
                     ELSE IF whence = SEEK_CUR THEN Pos(W1) ELSE Len(W1.file)
             target == base + pos
             W2 == [W1 EXCEPT !.op = "seek", !.arg = 0, !.out = <<>>]
         IN IF FlushFails(W, wfail)
            THEN [W2 EXCEPT !.ret = AVERROR(EIO), !.oscall = TRUE]
            ELSE IF target < 0
            THEN [W2 EXCEPT !.ret = AVERROR(EINVAL), !.oscall = TRUE]
            ELSE [W2 EXCEPT !.off = target, !.rbuf = <<>>, !.ret = target,
                            !.oscall = FALSE]

\* cached_file_seek that does not test the result of fseeko and returns what
\* ftello reports
cached_file_seek_unchecked(W, pos, whence, wfail, keep, stfail) ==
    IF whence = AVSEEK_SIZE
    THEN LET W1 == fflush(W, wfail, keep)
         IN [W1 EXCEPT !.op = "size", !.arg = 0, !.out = <<>>,
                       !.ret = IF stfail THEN AVERROR(EIO) ELSE Len(W1.file),
                       !.oscall = FlushFails(W, wfail) \/ stfail]
    ELSE LET W1 == IF W.wbuf # <<>> THEN fflush(W, wfail, keep) ELSE W
             base == IF whence = SEEK_SET THEN 0
                     ELSE IF whence = SEEK_CUR THEN Pos(W1) ELSE Len(W1.file)
             target == base + pos
             W2 == [W1 EXCEPT !.op = "seek", !.arg = 0, !.out = <<>>]
         IN IF FlushFails(W, wfail) \/ target < 0
            THEN [W2 EXCEPT !.ret = Pos(W1), !.oscall = TRUE]
            ELSE [W2 EXCEPT !.off = target, !.rbuf = <<>>, !.ret = target,
                            !.oscall = FALSE]

\* cached_file_seek
cached_file_seek(W, pos, whence, wfail, keep, stfail) ==
    IF whence = AVSEEK_SIZE
    THEN LET W1 == fflush(W, wfail, keep)
         IN [W1 EXCEPT !.op = "size", !.arg = 0, !.out = <<>>,
                       !.ret = IF stfail THEN AVERROR(EIO) ELSE Len(W1.file),
                       !.oscall = FlushFails(W, wfail) \/ stfail]
    ELSE \* fseeko writes pending output first, then moves the descriptor
         LET W1 == IF W.wbuf # <<>> THEN fflush(W, wfail, keep) ELSE W
             base == IF whence = SEEK_SET THEN 0
                     ELSE IF whence = SEEK_CUR THEN Pos(W1) ELSE Len(W1.file)
             target == base + pos
             W2 == [W1 EXCEPT !.op = "seek", !.arg = 0, !.out = <<>>]
         IN IF FlushFails(W, wfail)
            THEN [W2 EXCEPT !.ret = AVERROR(EIO), !.oscall = TRUE]
            ELSE IF target < 0
            THEN [W2 EXCEPT !.ret = AVERROR(EINVAL), !.oscall = TRUE]
            ELSE [W2 EXCEPT !.off = target, !.rbuf = <<>>, !.ret = target,
                            !.oscall = FALSE]

\* a get_handle that refuses a handle that is not open
cached_file_get_handle_checked(W) ==
    [W EXCEPT !.op = "get_handle", !.arg = 0, !.out = <<>>, !.oscall = FALSE,
              !.ret = IF W.f = "open" THEN W.fd ELSE AVERROR(EINVAL)]

\* cached_file_get_handle
cached_file_get_handle(W) ==
    [W EXCEPT !.op = "get_handle", !.arg = 0, !.out = <<>>, !.oscall = FALSE,
              !.ret = W.fd]

\* a check that tests the owner-read bit for both requested flags
cached_file_check_rdbit(W, mask) ==
    LET filename == av_strstart(W.url, FilePrefix)
        st == Stat(W, filename)
        r == IF (st.mode \div S_IRUSR) % 2 = 1 THEN mask ELSE 0
    IN [W EXCEPT !.op = "check", !.arg = mask, !.out = <<>>,
                 !.oscall = ~st.ok,
                 !.ret = IF st.ok THEN r ELSE AVERROR(ENOENT)]

\* cached_file_check
cached_file_check(W, mask) ==
    LET filename == av_strstart(W.url, FilePrefix)
        st == Stat(W, filename)
        r == (IF (st.mode \div S_IRUSR) % 2 = 1 /\ HasRead(mask)
              THEN AVIO_FLAG_READ ELSE 0)
             + (IF (st.mode \div S_IWUSR) % 2 = 1 /\ HasWrite(mask)
                THEN AVIO_FLAG_WRITE ELSE 0)
    IN [W EXCEPT !.op = "check", !.arg = mask, !.out = <<>>,
                 !.oscall = ~st.ok,
                 !.ret = IF st.ok THEN r ELSE AVERROR(ENOENT)]

\* a delete that removes the file, as the delete of the "file:" protocol does
cached_file_delete_unlink(W) ==
    [W EXCEPT !.op = "delete", !.arg = 0, !.out = <<>>, !.oscall = ~W.exists,
              !.exists = FALSE, !.file = <<>>,
              !.ret = IF W.exists THEN 0 ELSE AVERROR(ENOENT)]

\* cached_file_delete
cached_file_delete(W) ==
    [W EXCEPT !.op = "delete", !.arg = 0, !.out = <<>>, !.oscall = FALSE,
              !.ret = AVERROR(ENOSYS)]

\* cached_file_move, called on the source handle
cached_file_move(W) ==
    [W EXCEPT !.op = "move", !.arg = 0, !.out = <<>>, !.oscall = FALSE,
              !.ret = AVERROR(ENOSYS)]

\* the first step of cached_file_close: a write handle is flushed
CloseFlushed(W, ffail, keep) ==
    IF W.write_flags # 0 THEN fflush(W, ffail, keep) ELSE W

\* cached_file_close that closes the descriptor and not the stream: nothing
\* is flushed
cached_file_close_fd(W, ffail, keep, sfail, wfail, cfail) ==
    LET W2 == IF W.write_flags # 0 /\ ~sfail THEN [W EXCEPT !.durable = TRUE] ELSE W
        W3 == [W2 EXCEPT !.wbuf = <<>>, !.rbuf = <<>>, !.fdopen = FALSE,
                         !.f = "closed", !.st = "closed", !.op = "close", !.arg = 0,
                         !.out = <<>>, !.oscall = sfail \/ cfail]
    IN IF cfail
       THEN [W3 EXCEPT !.ret = AVERROR(EIO)]
       ELSE [av_free(W3, W.buf) EXCEPT !.ret = 0]

\* cached_file_close
cached_file_close(W, ffail, keep, sfail, wfail, cfail) ==
    LET W1 == CloseFlushed(W, ffail, keep)
        W2 == IF W.write_flags # 0 /\ ~sfail THEN [W1 EXCEPT !.durable = TRUE] ELSE W1
        \* fclose: flush what is pending, close the descriptor, destroy the stream
        r == IF FlushFails(W2, wfail) \/ cfail THEN 0 - 1 ELSE 0
        W3 == [fflush(W2, wfail, FALSE) EXCEPT !.wbuf = <<>>, !.rbuf = <<>>,
                                               !.fdopen = FALSE, !.f = "closed",
                                               !.st = "closed", !.op = "close",
                                               !.arg = 0, !.out = <<>>,
                                               !.steps = IF W.write_flags # 0
                                                         THEN <<"fflush", "fsync", "fclose">>
                                                         ELSE <<"fclose">>,
                                               !.syncpend = IF W.write_flags # 0 /\ FlushFails(W, ffail)
                                                            THEN Len(W.wbuf) ELSE 0,
                                               !.oscall = (W.write_flags # 0 /\ (FlushFails(W, ffail) \/ sfail))
                                                          \/ FlushFails(W2, wfail) \/ cfail]
    IN IF r # 0
       THEN [W3 EXCEPT !.ret = AVERROR(EIO)]
       ELSE [av_free(W3, W.buf) EXCEPT !.ret = 0]

-----------------------------------------------------------------------------
(* States *)

\* a context as ffurl_alloc leaves it (priv_data zeroed, buf_size set from the
\* option) on a file system where the path holds file or is absent
Fresh(bs, exists, file) ==
    [st |-> "new", flags |-> 0, buf_size |-> bs, write_flags |-> 0, buf |-> 0,
     f |-> "null", fd |-> 0,
     live |-> {}, nalloc |-> 0, dfree |-> FALSE,
     cap |-> 0, wbuf |-> <<>>, rbuf |-> <<>>, dropped |-> FALSE,
     exists |-> exists, file |-> file, durable |-> TRUE, off |-> 0, fdopen |-> FALSE,
     fno |-> 0, url |-> CfUrl, mode |-> S_IRUSR + S_IWUSR,
     lit |-> [exists |-> FALSE, mode |-> 0], steps |-> <<>>, syncpend |-> 0,
     op |-> "none", arg |-> 0, ret |-> 0, out |-> <<>>, oscall |-> FALSE]

\* what an observer of the calls on the current handle has seen
Observed(nh, written, wpure) ==
    [nh |-> nh,            \* contexts created so far
     live0 |-> 0,          \* live heap blocks before Open
     same |-> TRUE,        \* the last call left the logical position where it was
     wpend |-> 0,          \* bytes pending in the stream buffer before the last call
     sumw |-> 0,           \* sum of the values returned by Write
     accepted |-> <<>>,    \* the bytes Write accepted, while only Write was called
     wonly |-> TRUE,       \* only Write was called since Open
     got |-> <<>>,         \* the bytes Read returned, while only Read was called
     ronly |-> TRUE,       \* only Read was called since Open
     seeked |-> FALSE,     \* a positional Seek was called
     oserr |-> FALSE,      \* a system call failed
     eofrep |-> 0,         \* consecutive Reads begun at or beyond end of file (up to 2)
     syncfail |-> FALSE,   \* Close: fsync failed
     closefail |-> FALSE,  \* Close: fclose failed
     written |-> written,  \* what the last closed write handle accepted
     wpure |-> wpure,      \* ... it was used for Write only and its Close returned 0
     phase |-> 0,          \* lock step: progress through write, seek, write
     diff |-> FALSE]       \* lock step: the two stream buffers have differed

\* the outcomes of a flush: the write succeeds, or fails with the pending
\* bytes kept, or fails with them dropped
FlushOutcome(wfail, keep) == wfail \/ ~keep

Init ==
    /\ \E bs \in BufSizes, ex \in BOOLEAN :
          w = Fresh(bs, ex, IF ex THEN OldContent ELSE <<>>)
    /\ g = Observed(1, <<>>, FALSE)
    /\ a = Fresh(0, FALSE, <<>>)
    /\ b = Fresh(DefaultBufSize, FALSE, <<>>)

\* a new context for the same path, after the previous one was closed
NewHandle ==
    /\ w.st = "closed"
    /\ g.nh < MaxHandles
    /\ \E bs \in BufSizes :
          w' = [Fresh(bs, w.exists, w.file) EXCEPT !.durable = w.durable, !.live = w.live,
                                                   !.mode = w.mode, !.lit = w.lit,
                                                   !.nalloc = w.nalloc,
                                                   !.dfree = w.dfree]
    /\ g' = Observed(g.nh + 1, g.written, g.wpure)
    /\ UNCHANGED <<a, b>>

Open ==
    /\ w.st = "new"
    /\ \E flags \in OpenFlags, ofail \in BOOLEAN, mfail \in BOOLEAN :
          /\ mfail => ~ofail /\ w.buf_size # 0
          /\ w' = cached_file_open(w, flags, ofail, mfail)
    /\ g' = [g EXCEPT !.live0 = Cardinality(w.live)]
    /\ UNCHANGED <<a, b>>

Write ==
    /\ w.st = "open"
    /\ HasWrite(w.flags)
    /\ \E n \in 0..MaxWriteLen, wfail \in BOOLEAN, keep \in BOOLEAN :
          /\ FlushOutcome(wfail, keep)
          /\ Pos(w) + n <= MaxPos
          /\ g.sumw + n <= MaxPos
          /\ w' = cached_file_write(w, Pattern(Pos(w), n), wfail, keep)
          /\ g' = [g EXCEPT !.same = (Pos(w') = Pos(w)),
                            !.wpend = Len(w.wbuf),
                            !.sumw = @ + w'.ret,
                            !.accepted = IF g.wonly
                                         THEN @ \o SubSeq(Pattern(Pos(w), n), 1, w'.ret)
                                         ELSE @,
                            !.oserr = @ \/ w'.oscall,
                            !.ronly = FALSE, !.got = <<>>, !.eofrep = 0]
    /\ UNCHANGED <<a, b>>

Read ==
    /\ w.st = "open"
    /\ HasRead(w.flags)
    /\ \E size \in {1, 2, MaxPos + 1}, rfail \in BOOLEAN, wfail \in BOOLEAN,
          keep \in BOOLEAN :
          /\ FlushOutcome(wfail, keep)
          /\ wfail => w.wbuf # <<>>
          /\ w' = cached_file_read(w, size, rfail, wfail, keep)
    /\ g' = [g EXCEPT !.same = (Pos(w') = Pos(w)),
                      !.wpend = Len(w.wbuf),
                      !.got = IF g.ronly THEN @ \o w'.out ELSE @,
                      !.oserr = @ \/ w'.oscall,
                      !.wonly = FALSE, !.accepted = <<>>,
                      !.eofrep = IF Pos(w) < Len(w.file) THEN 0
                                 ELSE IF @ < 2 THEN @ + 1 ELSE @]
    /\ UNCHANGED <<a, b>>

Seek ==
    /\ w.st = "open"
    /\ \E pos \in (0 - 1)..MaxPos, whence \in Whences, wfail \in BOOLEAN,
          keep \in BOOLEAN, stfail \in BOOLEAN :
          /\ FlushOutcome(wfail, keep)
          /\ wfail => w.wbuf # <<>>
          /\ whence = AVSEEK_SIZE => pos = 0
          /\ stfail => whence = AVSEEK_SIZE
          /\ w' = cached_file_seek(w, pos, whence, wfail, keep, stfail)
          /\ Pos(w') <= MaxPos
          /\ g' = [g EXCEPT !.same = (Pos(w') = Pos(w)),
                            !.wpend = Len(w.wbuf),
                            !.seeked = @ \/ whence # AVSEEK_SIZE,
                            !.oserr = @ \/ w'.oscall,
                            !.wonly = FALSE, !.accepted = <<>>,
                            !.ronly = FALSE, !.got = <<>>,
                            !.eofrep = 0]
    /\ UNCHANGED <<a, b>>

Close ==
    /\ w.st = "open"
    /\ \E ffail \in BOOLEAN, keep \in BOOLEAN, sfail \in BOOLEAN, wfail \in BOOLEAN,
          cfail \in BOOLEAN :
          /\ FlushOutcome(ffail, keep)
          /\ ffail => w.wbuf # <<>> /\ w.write_flags # 0
          /\ wfail => CloseFlushed(w, ffail, keep).wbuf # <<>>
          /\ sfail => w.write_flags # 0
          /\ w' = cached_file_close(w, ffail, keep, sfail, wfail, cfail)
          /\ g' = [g EXCEPT !.same = TRUE,
                            !.wpend = Len(w.wbuf),
                            !.oserr = @ \/ w'.oscall,
                            !.syncfail = sfail,
                            !.closefail = wfail \/ cfail,
                            !.written = IF w.write_flags # 0 THEN g.accepted ELSE @,
                            !.wpure = IF w.write_flags # 0
                                      THEN g.wonly /\ w'.ret = 0 ELSE @]
    /\ UNCHANGED <<a, b>>

\* one handle, from Open to Close, under every call and every outcome of the
\* system calls
Next == Open \/ Write \/ Read \/ Seek \/ Close

Spec == Init /\ [][Next]_vars

\* handles opened one after the other on the same path and used without Seek
NextRe == NewHandle \/ Open \/ Write \/ Read \/ Close

SpecRe == Init /\ [][NextRe]_vars

-----------------------------------------------------------------------------
(* The other entries of the protocol table.  They can be called on a handle  *)
(* in any state: never opened, open, closed.                                 *)

GetHandle ==
    /\ w' = cached_file_get_handle(w)
    /\ UNCHANGED <<g, a, b>>

Check ==
    /\ \E mask \in Masks : w' = cached_file_check(w, mask)
    /\ UNCHANGED <<g, a, b>>

Delete ==
    /\ w' = cached_file_delete(w)
    /\ UNCHANGED <<g, a, b>>

Rename ==
    /\ w' = cached_file_move(w)
    /\ UNCHANGED <<g, a, b>>

\* the calls on an open handle when every system call succeeds
OpenOk ==
    /\ w.st = "new"
    /\ \E flags \in OpenFlags : w' = cached_file_open(w, flags, FALSE, FALSE)
    /\ UNCHANGED <<g, a, b>>

WriteOk ==
    /\ w.st = "open"
    /\ HasWrite(w.flags)
    /\ \E n \in 0..MaxWriteLen :
          /\ Pos(w) + n <= MaxPos
          /\ w' = cached_file_write(w, Pattern(Pos(w), n), FALSE, TRUE)
    /\ UNCHANGED <<g, a, b>>

ReadOk ==
    /\ w.st = "open"
    /\ HasRead(w.flags)
    /\ \E size \in {1, 2, MaxPos + 1} :
          w' = cached_file_read(w, size, FALSE, FALSE, TRUE)
    /\ UNCHANGED <<g, a, b>>

SeekOk ==
    /\ w.st = "open"
    /\ \E pos \in 0..MaxPos, whence \in Whences :
          /\ whence = AVSEEK_SIZE => pos = 0
          /\ w' = cached_file_seek(w, pos, whence, FALSE, TRUE, FALSE)
          /\ Pos(w') <= MaxPos
    /\ UNCHANGED <<g, a, b>>

CloseOk ==
    /\ w.st = "open"
    /\ w' = cached_file_close(w, FALSE, TRUE, FALSE, FALSE, FALSE)
    /\ UNCHANGED <<g, a, b>>

\* one handle and every entry of the protocol table
NextAux ==
    \/ OpenOk \/ WriteOk \/ ReadOk \/ SeekOk \/ CloseOk
    \/ GetHandle \/ Check \/ Delete \/ Rename

SpecAux == Init /\ [][NextAux]_vars

\* the file system varies: the owner permissions of the file of the handle,
\* and a file named like the URL, with its own permissions, or no such file
InitChk ==
    /\ \E bs \in BufSizes, exists \in BOOLEAN, mode \in Modes,
          lit \in {[exists |-> FALSE, mode |-> 0]}
                   \cup {[exists |-> TRUE, mode |-> m] : m \in Modes} :
          w = [Fresh(bs, exists, IF exists THEN OldContent ELSE <<>>)
                 EXCEPT !.mode = IF exists THEN mode ELSE S_IRUSR + S_IWUSR,
                        !.lit = lit]
    /\ g = Observed(1, <<>>, FALSE)
    /\ a = Fresh(0, FALSE, <<>>)
    /\ b = Fresh(DefaultBufSize, FALSE, <<>>)

NextChk == Open \/ Close \/ Check

SpecChk == InitChk /\ [][NextChk]_vars

-----------------------------------------------------------------------------
(* Two contexts that differ only in buf_size, on two file systems, driven by
   the same calls in lock step; every system call succeeds *)

InitEq ==
    /\ w = Fresh(0, FALSE, <<>>)
    /\ g = Observed(1, <<>>, FALSE)
    /\ a = Fresh(0, FALSE, <<>>)
    /\ b = Fresh(DefaultBufSize, FALSE, <<>>)

EqOpen ==
    /\ a.st = "new"
    /\ \E flags \in {AVIO_FLAG_WRITE, AVIO_FLAG_READ + AVIO_FLAG_WRITE} :
          /\ a' = cached_file_open(a, flags, FALSE, FALSE)
          /\ b' = cached_file_open(b, flags, FALSE, FALSE)
    /\ UNCHANGED <<w, g>>

EqWrite ==
    /\ a.st = "open"
    /\ \E data \in Datas :
          /\ Pos(a) + Len(data) <= MaxPos
          /\ a' = cached_file_write(a, data, FALSE, FALSE)
          /\ b' = cached_file_write(b, data, FALSE, FALSE)
          /\ g' = [g EXCEPT !.phase = IF data # <<>> /\ @ \in {0, 2} THEN @ + 1 ELSE @,
                            !.diff = @ \/ a'.wbuf # b'.wbuf]
    /\ UNCHANGED w

EqSeek ==
    /\ a.st = "open"
    /\ \E pos \in (0 - 1)..MaxPos, whence \in Whences :
          /\ whence = AVSEEK_SIZE => pos = 0
          /\ a' = cached_file_seek(a, pos, whence, FALSE, FALSE, FALSE)
          /\ b' = cached_file_seek(b, pos, whence, FALSE, FALSE, FALSE)
          /\ Pos(a') <= MaxPos
          /\ g' = [g EXCEPT !.phase = IF whence # AVSEEK_SIZE /\ a'.ret >= 0 /\ @ = 1
                                      THEN 2 ELSE @]
    /\ UNCHANGED w

EqClose ==
    /\ a.st = "open"
    /\ a' = cached_file_close(a, FALSE, FALSE, FALSE, FALSE, FALSE)
    /\ b' = cached_file_close(b, FALSE, FALSE, FALSE, FALSE, FALSE)
    /\ UNCHANGED <<w, g>>

NextEq == EqOpen \/ EqWrite \/ EqSeek \/ EqClose

SpecEq == InitEq /\ [][NextEq]_vars

-----------------------------------------------------------------------------
(* Properties *)

IsPrefix(s, t) == Len(s) <= Len(t) /\ SubSeq(t, 1, Len(s)) = s

\* C1: after Close has returned, with success or with an error, the buffer
\* that Open allocated has been freed exactly once: as many heap blocks are
\* live as before Open, and nothing was freed twice.
C1_BufferReleasedByClose ==
    w.st = "closed" => Cardinality(w.live) = g.live0 /\ ~w.dfree

\* C2: Close on a write handle returns a negative code whenever fsync or the
\* final close fails, and 0 only when both succeeded.
C2_CloseReportsSyncAndCloseFailure ==
    w.st = "closed" /\ w.write_flags # 0 =>
        IF g.syncfail \/ g.closefail THEN w.ret < 0 ELSE w.ret = 0

\* C3: when Close on a write handle returns success, every byte that a Write
\* accepted is on stable storage: none was dropped from the stream buffer and
\* none is only in the page cache.
C3_CloseSuccessMeansDurable ==
    w.st = "closed" /\ w.write_flags # 0 /\ g.sumw > 0 /\ w.ret = 0 =>
        w.durable /\ ~w.dropped

\* C4: after Writes and a Close that reported success on a write handle, the
\* Reads of a fresh read-only handle on the same path return the written bytes
\* in write order and nothing else: what was read so far is a prefix of what
\* was written, and a Read that returns a count below its capacity has
\* delivered all of it.
C4_ReadBackWhatWasWritten ==
    g.wpure /\ w.st = "open" /\ w.write_flags = 0 /\ g.ronly =>
        /\ IsPrefix(g.got, g.written)
        /\ w.op = "read" /\ w.ret >= 0 /\ w.ret < w.arg => g.got = g.written

C6_SizeQueryKeepsPositionAndFlushes ==
    w.op = "size" => g.same /\ w.wbuf = <<>>

\* C7: a handle with buf_size 0 and a handle with buf_size 1048576, given the
\* same writes and seeks, return the same value from every call and leave the
\* same file content after Close.
C7_BufSizeIsTransparent ==
    /\ a.op = b.op /\ a.ret = b.ret
    /\ a.st = "closed" => b.st = "closed" /\ a.file = b.file

C7_Witness ==
    /\ a.st = "closed" /\ b.st = "closed" /\ a.buf_size = 0
    /\ b.buf_size = DefaultBufSize /\ b.cap = DefaultBufSize
    /\ g.phase = 3 /\ g.diff /\ a.file = b.file /\ Len(a.file) = MaxPos

\* C8: with buf_size 0 the stream is unbuffered: after a Write no written byte
\* is held in the stream buffer, and a Read leaves no read-ahead.
C8_ZeroBufSizeIsUnbuffered ==
    w.buf_size = 0 =>
        /\ w.op = "write" => w.wbuf = <<>>
        /\ w.op = "read" => w.rbuf = <<>>

\* C9: a Read or Write whose underlying system call failed returns a negative
\* code; any other returns a count between 0 and the requested size.
C9_TransferErrorIsNegative ==
    w.op \in {"read", "write"} =>
        IF w.oscall THEN w.ret < 0 ELSE w.ret >= 0 /\ w.ret <= w.arg

\* C10: a Read on a read-only handle whose position is at or beyond end of
\* file returns 0, not an error, and leaves the position where it was, also
\* when it is repeated.
C10_ReadAtEofReturnsZero ==
    w.op = "read" /\ w.write_flags = 0 /\ g.eofrep >= 1 => w.ret = 0 /\ g.same

C10_Witness ==
    /\ w.op = "read" /\ w.write_flags = 0 /\ g.eofrep = 2
    /\ w.arg > 0 /\ w.ret = 0 /\ g.same
    /\ w.file # <<>> /\ Pos(w) >= Len(w.file)

\* what a call leaves behind apart from its own result
Core(W) ==
    [W EXCEPT !.op = "none", !.arg = 0, !.ret = 0, !.out = <<>>, !.oscall = FALSE]

(* C11: Delete and Rename return the "function not implemented" code in     *)
(* every state of the handle, never opened, open for reading or writing,    *)
(* closed, and change neither the handle nor the file system.               *)
C11_DeleteRenameNotImplemented ==
    [][w'.op \in {"delete", "move"}
         => w'.ret = AVERROR(ENOSYS) /\ Core(w') = Core(w)]_vars

\* Delete on a write handle that holds bytes not yet flushed
C11_Witness ==
    /\ w.op = "delete" /\ w.ret = AVERROR(ENOSYS)
    /\ w.st = "open" /\ w.write_flags # 0 /\ w.wbuf # <<>> /\ w.exists

\* the flags a mask requests, the flags the owner bits of a mode grant, and
\* the bitmask of a set of flags
Requested(mask) ==
    {f \in {AVIO_FLAG_READ, AVIO_FLAG_WRITE} : (mask \div f) % 2 = 1}
Granted(mode) ==
    {f \in {AVIO_FLAG_READ} : (mode \div S_IRUSR) % 2 = 1}
    \cup {f \in {AVIO_FLAG_WRITE} : (mode \div S_IWUSR) % 2 = 1}
BitMask(fs) ==
    (IF AVIO_FLAG_READ \in fs THEN AVIO_FLAG_READ ELSE 0)
    + (IF AVIO_FLAG_WRITE \in fs THEN AVIO_FLAG_WRITE ELSE 0)

\* the name whose metadata CheckAccess queries
CheckedPath(W) == av_strstart(W.url, FilePrefix)

C13_OpenAndCheckResolveSameFile ==
    w.op = "check" /\ w.st # "new"
        => w.ret = BitMask(Requested(w.arg) \cap Granted(w.mode))

(* C14: Open sets the write-mode flag exactly when the requested mode is    *)
(* write-only or read-write; a successful Open in such a mode leaves the     *)
(* file existing with length 0; a successful read-only Open leaves the       *)
(* content as it was, and read-only Open of a file that does not exist fails.*)
C14_OpenModeAndTruncation ==
    [][w'.op = "open"
         => /\ (w'.write_flags # 0) = HasWrite(w'.arg)
            /\ w'.ret = 0 /\ HasWrite(w'.arg) => w'.exists /\ w'.file = <<>>
            /\ w'.ret = 0 /\ ~HasWrite(w'.arg)
                  => w.exists /\ w'.exists /\ w'.file = w.file
            /\ ~HasWrite(w'.arg) /\ ~w.exists => w'.ret < 0]_vars

\* a second handle opened for writing on the file the first one has filled
C14_Witness ==
    /\ w.op = "open" /\ w.ret = 0 /\ HasWrite(w.arg) /\ w.write_flags = 1
    /\ g.nh = 2 /\ g.written # <<>> /\ g.wpure
    /\ w.exists /\ w.file = <<>>

(* C15: an open handle with buf_size > 0 owns an allocated buffer of         *)
(* buf_size bytes that is the buffer of its stream, also when the allocation *)
(* made by Open fails (Open then does not succeed); an open handle with      *)
(* buf_size = 0 owns no buffer.                                              *)
C15_OpenHandleOwnsItsBuffer ==
    w.st = "open"
        => IF w.buf_size > 0
           THEN w.buf # 0 /\ w.buf \in w.live /\ w.cap = w.buf_size
           ELSE w.buf = 0

(* C16: Close of a write handle calls flush, then sync, then close, and the  *)
(* sync is issued only when the flush has put every buffered byte into the   *)
(* file; Close of a read-only handle only closes.                            *)
C16_CloseFlushesThenSyncsThenCloses ==
    w.op = "close"
        => IF w.write_flags # 0
           THEN w.steps = <<"fflush", "fsync", "fclose">> /\ w.syncpend = 0
           ELSE w.steps = <<"fclose">>

(* C17: a positional Seek that succeeds returns the new absolute position,  *)
(* and what a write handle held in its buffer is in the file, at the offset  *)
(* it was written at, before the position changes; a positional Seek whose   *)
(* underlying seek fails returns a negative error, never a position.         *)
C17_SeekReturnsPositionOrError ==
    [][w'.op = "seek"
         => IF w'.oscall
            THEN w'.ret < 0
            ELSE /\ w'.ret >= 0 /\ w'.ret = Pos(w')
                 /\ w'.wbuf = <<>>
                 /\ w'.file = Overlay(w.file, w.off, w.wbuf)]_vars

\* a Seek on a write handle with unflushed bytes that moved the position
C17_Witness ==
    /\ w.op = "seek" /\ w.ret >= 0 /\ w.ret = Pos(w)
    /\ w.write_flags # 0 /\ g.wpend > 0 /\ ~g.same

(* C18: an Open that fails because the path cannot be opened returns a     *)
(* negative error and leaves the handle without resources: no buffer         *)
(* allocated, no stream and no descriptor recorded, nothing for a Close to   *)
(* release.                                                                  *)
C18_FailedOpenLeavesNothing ==
    w.op = "open" /\ (w.oscall \/ w.ret # 0)
        => /\ w.ret < 0
           /\ w.st = "new" /\ w.f = "null" /\ w.fd = 0 /\ ~w.fdopen
           /\ w.buf = 0 /\ Cardinality(w.live) = g.live0

\* a read-only Open of a file that does not exist, with a buffer configured
C18_Witness ==
    /\ w.op = "open" /\ w.ret = AVERROR(ENOENT) /\ ~HasWrite(w.arg)
    /\ w.buf_size # 0 /\ ~w.exists /\ w.st = "new"

(* C19: while the handle is open the stored descriptor is the descriptor of *)
(* the stream, so both refer to the same open file; GetRawHandle returns    *)
(* the stored descriptor, in every state of the handle, never an error, and  *)
(* changes nothing.                                                          *)
C19_DescriptorIsTheStreams ==
    [][/\ w'.st = "open" => w'.f = "open" /\ w'.fdopen /\ w'.fd = w'.fno
       /\ w'.op = "get_handle"
            => /\ w'.ret = w.fd /\ w'.ret >= 0
               /\ w.st = "open" => w'.ret = w.fno
               /\ Core(w') = Core(w)]_vars

\* GetRawHandle on a write handle that holds bytes not yet flushed
C19_Witness ==
    /\ w.op = "get_handle" /\ w.st = "open" /\ w.ret = w.fno /\ w.ret = 3
    /\ w.wbuf # <<>>

(* C20: the write-mode flag recorded by Open is constant from the Open to    *)
(* the matching Close: no Read, Write, Seek, size query, GetRawHandle,       *)
(* CheckAccess, Delete or Rename changes it.                                 *)
C20_WriteFlagIsConstant ==
    [][w.st = "open" /\ w'.st = "open" => w'.write_flags = w.write_flags]_vars

\* a size query on a write handle, after which the flag is still set
C20_Witness ==
    /\ w.st = "open" /\ w.op = "size" /\ w.ret > 0
    /\ HasWrite(w.flags) /\ w.write_flags = 1

====
